---- MODULE Spec2Model ----
(***************************************************************************)
(* Model of the calendar event mutators (src/src/calendar_service.py) and  *)
(* of the JSON note store (src/src/note_service.py, src/src/main.py).      *)
(*                                                                         *)
(* Encodings.                                                              *)
(*  - A Python string that the code inspects (ISO times, RRULE rules, note *)
(*    scalars) is a sequence of chunks; each chunk is a TLA+ string. The   *)
(*    string operations of the code (in, replace, startswith, split, join, *)
(*    strftime) are computed on the chunks.                                *)
(*  - An optional value (a dict key that may be missing, an argument that  *)
(*    may be None) is a set with at most one element: {} is missing/None.  *)
(*  - A JSON document is the map from its key paths to its nodes; the      *)
(*    Python reference `current` is the key path that leads to it.         *)
(***************************************************************************)
EXTENDS Integers, Sequences, FiniteSets, TLC

VARIABLES
  events,      \* remote calendar: event id -> event resource
  calls,       \* remote calls issued by the last calendar operation, in order
  result,      \* what the last calendar operation returned or raised
  lastCall,    \* the last calendar operation and its arguments
  notesDir,    \* TRUE when ./notes exists
  notes,       \* files of ./notes: title -> document
  live,        \* titles whose last successful create/delete was a create
  noteCall,    \* the last note operation, its arguments, the files before it
  noteResult,  \* what the last note operation returned or raised
  steps,       \* operations performed so far, where a specification bounds them
  calendars,   \* remote calendar directory: the items of calendarList().list()
  fileLen,     \* bytes each file of ./notes holds: title -> length
  procs,       \* concurrent edit_note_value invocations: where each one is
  history,     \* the file-system steps the concurrent invocations have taken
  tools        \* concurrent create_ai_calendar invocations: where each one is

calVars == <<events, calls, result, lastCall>>
noteVars == <<notesDir, notes, live, noteCall, noteResult>>
runVars == <<calendars, fileLen, procs, history, tools>>
vars == <<events, calls, result, lastCall, notesDir, notes, live, noteCall, noteResult, steps,
          calendars, fileLen, procs, history, tools>>

----------------------------------------------------------------------------
(* Optional values and Python truthiness *)

None == {}
Some(x) == {x}
The(opt) == CHOOSE x \in opt : TRUE

\* dict.get(key, default)
GetOr(opt, default) == IF opt = {} THEN default ELSE The(opt)

\* bool(x) of an optional string given as chunks: None and "" are falsy
TruthySeq(opt) == opt # {} /\ The(opt) # <<>>

\* bool(x) of an optional plain string
TruthyStr(opt) == opt # {} /\ The(opt) # ""

\* a or b
PyOr(a, b) == IF TruthySeq(a) THEN a ELSE b

----------------------------------------------------------------------------
(* Strings as chunk sequences *)

\* sub in s, for a one-chunk sub
ChunkIn(sub, s) == \E i \in 1..Len(s) : s[i] = sub

\* s.replace(old, new), for a one-chunk old
Replace(s, old, new) == [i \in 1..Len(s) |-> IF s[i] = old THEN new ELSE s[i]]

\* s.startswith(prefix), for a one-chunk prefix
StartsWith(s, prefix) == Len(s) >= 1 /\ s[1] = prefix

RECURSIVE SplitFrom(_, _, _, _)
SplitFrom(s, sep, i, acc) ==
  IF i > Len(s) THEN <<acc>>
  ELSE IF s[i] = sep THEN <<acc>> \o SplitFrom(s, sep, i + 1, <<>>)
  ELSE SplitFrom(s, sep, i + 1, Append(acc, s[i]))

\* s.split(sep)
Split(s, sep) == SplitFrom(s, sep, 1, <<>>)

RECURSIVE Join(_, _)
\* sep.join(parts)
Join(parts, sep) ==
  IF parts = <<>> THEN <<>>
  ELSE IF Len(parts) = 1 THEN parts[1]
  ELSE parts[1] \o <<sep>> \o Join(Tail(parts), sep)

----------------------------------------------------------------------------
(* datetime *)

\* datetime.datetime.fromisoformat: the fields of the text, and its offset
\* (tzinfo) when it has one; a date-only text gives midnight, no tzinfo.
fromisoformat(s) ==
  IF Len(s) = 5
  THEN [year |-> s[1], month |-> s[3], day |-> s[5],
        hour |-> "00", minute |-> "00", second |-> "00", tzinfo |-> None]
  ELSE [year |-> s[1], month |-> s[3], day |-> s[5],
        hour |-> s[7], minute |-> s[9], second |-> s[11],
        tzinfo |-> IF Len(s) >= 12 THEN Some(s[12]) ELSE None]

\* dt.strftime("%Y%m%dT%H%M%SZ"): the fields of dt as they stand; Z is literal text
strftime_datetime(dt) ==
  <<dt.year, dt.month, dt.day, "T", dt.hour, dt.minute, dt.second, "Z">>

\* dt.strftime("%Y%m%d")
strftime_date(dt) == <<dt.year, dt.month, dt.day>>

----------------------------------------------------------------------------
(* The remote calendar *)

\* An event resource. Missing keys are None.
Event(id, summary, description, start, end, recurringEventId, recurrence) ==
  [id |-> id, summary |-> summary, description |-> description,
   start |-> start, end |-> end,
   recurringEventId |-> recurringEventId, recurrence |-> recurrence]

\* A start/end object: {"dateTime": ...} or {"date": ...}
TimePoint(dateTime, date) == [dateTime |-> dateTime, date |-> date]

\* One remote call: body is the response of a get, the request body of an
\* update, None for a delete; ok is FALSE when the call raised.
Call(op, calendarId, eventId, body, ok) ==
  [op |-> op, calendarId |-> calendarId, eventId |-> eventId, body |-> body, ok |-> ok]

\* What an operation hands back: its returned dict, or the exception it raised.
Returned(status, calendar_id, id, recurring_event_id, until_date, event) ==
  [status |-> status, id |-> id, recurring_event_id |-> recurring_event_id,
   calendar_id |-> calendar_id, until_date |-> until_date, event |-> event,
   exception |-> None]

Raised(exc) ==
  [status |-> "", id |-> "", recurring_event_id |-> None, calendar_id |-> None,
   until_date |-> None, event |-> None, exception |-> Some(exc)]

Outcome(ev, cl, res) == [events |-> ev, calls |-> cl, result |-> res]

\* service.events().get(...).execute() succeeds: the transport holds and the id exists
GetOk(ev, event_id, n, failAt) == failAt # n /\ event_id \in DOMAIN ev

\* service.events().update(...).execute(): the stored resource becomes the body
RemoteUpdate(ev, event_id, body) == [ev EXCEPT ![event_id] = body]

\* service.events().delete(...).execute(): the resource is gone
RemoteDelete(ev, event_id) == [e \in DOMAIN ev \ {event_id} |-> ev[e]]

----------------------------------------------------------------------------
(* delete_event_from_calendar *)

\* Mutant of InstanceStart: the fall-back to the date-only field is forgotten
InstanceStartNoDate(event) ==
  LET start == GetOr(event.start, TimePoint(None, None))
  IN start.dateTime

\* event.get("start", {}).get("dateTime") or event.get("start", {}).get("date")
InstanceStart(event) ==
  LET start == GetOr(event.start, TimePoint(None, None))
  IN PyOr(start.dateTime, start.date)

\* The UNTIL text computed from the instance start
UntilDate(instance_start) ==
  LET dt == IF ChunkIn("T", instance_start)
            THEN fromisoformat(Replace(instance_start, "Z", "+00:00"))
            ELSE fromisoformat(instance_start)
  IN IF ChunkIn("T", instance_start) THEN strftime_datetime(dt) ELSE strftime_date(dt)

\* p survives the filter: not p.startswith("UNTIL=") and not p.startswith("COUNT=")
KeepPart(p) == ~StartsWith(p, "UNTIL=") /\ ~StartsWith(p, "COUNT=")

\* One pass of the loop over the parent's rules
UpdatedRule(rule, until_date) ==
  IF StartsWith(rule, "RRULE:")
  THEN LET parts == Split(rule, ";")
           filtered_parts == SelectSeq(parts, KeepPart)
       IN Join(filtered_parts, ";") \o <<";", "UNTIL=">> \o until_date
  ELSE rule

UpdatedRecurrence(recurrence, until_date) ==
  [i \in 1..Len(recurrence) |-> UpdatedRule(recurrence[i], until_date)]

\* Delete only the specified event; prior are the calls already issued
DeleteOnly(ev, prior, calendar_id, event_id, failAt) ==
  LET ok == failAt # Len(prior) + 1 /\ event_id \in DOMAIN ev
      c == Call("delete", calendar_id, event_id, None, ok)
  IN IF ok
     THEN Outcome(RemoteDelete(ev, event_id), Append(prior, c),
                  Returned("deleted", Some(calendar_id), event_id, None, None, None))
     ELSE Outcome(ev, Append(prior, c), Raised("HttpError"))

\* failAt is the position of the remote call whose transport fails (0: none)
delete_event_from_calendar(ev, calendar_id, event_id, delete_following_instances, failAt) ==
  IF ~delete_following_instances THEN DeleteOnly(ev, <<>>, calendar_id, event_id, failAt)
  ELSE
    LET ok1 == GetOk(ev, event_id, 1, failAt)
        c1 == Call("get", calendar_id, event_id,
                   IF ok1 THEN Some(ev[event_id]) ELSE None, ok1)
    IN IF ~ok1 THEN Outcome(ev, <<c1>>, Raised("HttpError"))
       ELSE
         LET event == ev[event_id]
             recurring_event_id == event.recurringEventId
         IN IF ~TruthyStr(recurring_event_id)
            THEN DeleteOnly(ev, <<c1>>, calendar_id, event_id, failAt)
            ELSE
              LET pid == The(recurring_event_id)
                  ok2 == GetOk(ev, pid, 2, failAt)
                  c2 == Call("get", calendar_id, pid,
                             IF ok2 THEN Some(ev[pid]) ELSE None, ok2)
              IN IF ~ok2 THEN Outcome(ev, <<c1, c2>>, Raised("HttpError"))
                 ELSE
                   LET parent_event == ev[pid]
                       instance_start == InstanceStart(event)
                   IN IF ~TruthySeq(instance_start)
                      THEN DeleteOnly(ev, <<c1, c2>>, calendar_id, event_id, failAt)
                      ELSE
                        LET until_date == UntilDate(The(instance_start))
                            recurrence == GetOr(parent_event.recurrence, <<>>)
                            body == [parent_event EXCEPT !.recurrence =
                                       Some(UpdatedRecurrence(recurrence, until_date))]
                            ok3 == failAt # 3
                            c3 == Call("update", calendar_id, pid, Some(body), ok3)
                        IN IF ~ok3 THEN Outcome(ev, <<c1, c2, c3>>, Raised("HttpError"))
                           ELSE Outcome(RemoteUpdate(ev, pid, body), <<c1, c2, c3>>,
                                        Returned("deleted_following_instances",
                                                 Some(calendar_id), event_id,
                                                 Some(pid), Some(until_date), None))

----------------------------------------------------------------------------
(* update_event_in_calendar *)

\* event["start"]["dateTime"] = ... needs the "start" key (else KeyError)
FieldsOk(e, start_time, end_time) ==
  /\ start_time # None => e.start # None
  /\ end_time # None => e.end # None

\* Mutant of ApplyFields: start and end are replaced by a fresh {"dateTime": ...}
ApplyFieldsFreshTime(e, summary, description, start_time, end_time) ==
  [e EXCEPT
     !.summary = IF summary # None THEN summary ELSE @,
     !.description = IF description # None THEN description ELSE @,
     !.start = IF start_time # None THEN Some(TimePoint(start_time, None)) ELSE @,
     !.end = IF end_time # None THEN Some(TimePoint(end_time, None)) ELSE @]

\* The four "if x is not None: e[...] = x" assignments
ApplyFields(e, summary, description, start_time, end_time) ==
  [e EXCEPT
     !.summary = IF summary # None THEN summary ELSE @,
     !.description = IF description # None THEN description ELSE @,
     !.start = IF start_time # None THEN Some([The(@) EXCEPT !.dateTime = start_time]) ELSE @,
     !.end = IF end_time # None THEN Some([The(@) EXCEPT !.dateTime = end_time]) ELSE @]

\* Lines 252-276: update only the specified event; prior are the calls already issued
UpdateSingle(ev, prior, calendar_id, event_id, event, summary, start_time, end_time, description, failAt) ==
  IF ~FieldsOk(event, start_time, end_time)
  THEN Outcome(ev, prior, Raised("KeyError"))
  ELSE
    LET body == ApplyFields(event, summary, description, start_time, end_time)
        ok == failAt # Len(prior) + 1
        c == Call("update", calendar_id, event_id, Some(body), ok)
    IN IF ~ok THEN Outcome(ev, Append(prior, c), Raised("HttpError"))
       ELSE Outcome(RemoteUpdate(ev, event_id, body), Append(prior, c),
                    Returned("updated", Some(calendar_id), body.id, None, None, Some(body)))

update_event_in_calendar(ev, calendar_id, event_id, summary, start_time, end_time, description, update_following_instances, failAt) ==
  LET ok1 == GetOk(ev, event_id, 1, failAt)
      c1 == Call("get", calendar_id, event_id,
                 IF ok1 THEN Some(ev[event_id]) ELSE None, ok1)
  IN IF ~ok1 THEN Outcome(ev, <<c1>>, Raised("HttpError"))
     ELSE
       LET event == ev[event_id]
           recurring_event_id == event.recurringEventId
       IN IF update_following_instances /\ TruthyStr(recurring_event_id)
          THEN
            LET pid == The(recurring_event_id)
                ok2 == GetOk(ev, pid, 2, failAt)
                c2 == Call("get", calendar_id, pid,
                           IF ok2 THEN Some(ev[pid]) ELSE None, ok2)
            IN IF ~ok2 THEN Outcome(ev, <<c1, c2>>, Raised("HttpError"))
               ELSE
                 LET parent_event == ev[pid]
                 IN IF ~FieldsOk(parent_event, start_time, end_time)
                    THEN Outcome(ev, <<c1, c2>>, Raised("KeyError"))
                    ELSE
                      LET body == ApplyFields(parent_event, summary, description,
                                              start_time, end_time)
                          ok3 == failAt # 3
                          c3 == Call("update", calendar_id, pid, Some(body), ok3)
                      IN IF ~ok3 THEN Outcome(ev, <<c1, c2, c3>>, Raised("HttpError"))
                         ELSE Outcome(RemoteUpdate(ev, pid, body), <<c1, c2, c3>>,
                                      Returned("updated_following_instances",
                                               Some(calendar_id), event_id, Some(pid),
                                               None, None))
          ELSE UpdateSingle(ev, <<c1>>, calendar_id, event_id, event,
                            summary, start_time, end_time, description, failAt)

----------------------------------------------------------------------------
(* create_event_in_calendar *)

\* new_id is the id the server gives the created event
create_event_in_calendar(ev, calendar_id, summary, start_time, end_time, description, new_id, failAt) ==
  LET event_body == Event(new_id, Some(summary),
                          IF TruthyStr(description) THEN description ELSE None,
                          Some(TimePoint(Some(start_time), None)),
                          Some(TimePoint(Some(end_time), None)), None, None)
      ok == failAt # 1
      c == Call("insert", calendar_id, new_id, Some(event_body), ok)
  IN IF ~ok THEN Outcome(ev, <<c>>, Raised("HttpError"))
     ELSE Outcome([e \in DOMAIN ev \cup {new_id} |->
                     IF e = new_id THEN event_body ELSE ev[e]],
                  <<c>>, Returned("", None, new_id, None, None, None))

----------------------------------------------------------------------------
(* The note store: ./notes holds one JSON document per title *)

\* A node of a document: a dict, or a string given as chunks
Dict == [dict |-> TRUE, str |-> <<>>]
Str(s) == [dict |-> FALSE, str |-> s]

\* The document {}: no key path leads anywhere
EmptyDoc == [p \in {} |-> Dict]

IsPrefix(p, q) == Len(p) <= Len(q) /\ SubSeq(q, 1, Len(p)) = p

\* The object that `current` refers to: the root when the path is empty
NodeAt(doc, cur) == IF cur = <<>> THEN Dict ELSE doc[cur]

\* k in current: a key of a dict, a substring of a string
KeyIn(doc, cur, k) ==
  IF NodeAt(doc, cur).dict THEN Append(cur, k) \in DOMAIN doc
  ELSE ChunkIn(k, NodeAt(doc, cur).str)

\* del current[k]: the key goes with everything below it
Without(doc, p) == [q \in {r \in DOMAIN doc : ~IsPrefix(p, r)} |-> doc[q]]

\* current[k] = node, for a dict current: whatever the key held is replaced
Put(doc, p, node) ==
  [q \in DOMAIN Without(doc, p) \cup {p} |-> IF q = p THEN node ELSE doc[q]]

\* What a note operation hands back: {"message": ...}, {"error": ...}, the
\* content of a note, {"notes": [...]}, or the exception it raised
NoteReturn(kind, what, key, content, titles) ==
  [kind |-> kind, what |-> what, key |-> key, content |-> content, titles |-> titles]

Message(what) == NoteReturn("message", what, None, None, {})
Error(what, key) == NoteReturn("error", what, key, None, {})
NoteRaised(exc) == NoteReturn("raised", exc, None, None, {})

FileOutcome(dir, files, res) == [notesDir |-> dir, notes |-> files, result |-> res]

\* json.dump(content, f): the file holds the document
WriteFile(files, title, doc) ==
  [t \in DOMAIN files \cup {title} |-> IF t = title THEN doc ELSE files[t]]

\* Mutant of create_note_file: the file is opened for writing before the test
CreateNoteFileTruncates(dir, files, title) ==
  IF title \in DOMAIN files
  THEN FileOutcome(TRUE, WriteFile(files, title, EmptyDoc),
                   Error("Note with this title already exists.", None))
  ELSE FileOutcome(TRUE, WriteFile(files, title, EmptyDoc),
                   Message("Note created successfully."))

create_note_file(dir, files, title) ==
  IF title \in DOMAIN files
  THEN FileOutcome(TRUE, files, Error("Note with this title already exists.", None))
  ELSE FileOutcome(TRUE, WriteFile(files, title, EmptyDoc),
                   Message("Note created successfully."))

\* The create_note tool of main.py: the same steps, written out again
create_note(dir, files, title) ==
  IF title \in DOMAIN files
  THEN FileOutcome(TRUE, files, Error("Note with this title already exists.", None))
  ELSE FileOutcome(TRUE, WriteFile(files, title, EmptyDoc),
                   Message("Note created successfully."))

delete_note_file(dir, files, title) ==
  IF title \notin DOMAIN files
  THEN FileOutcome(dir, files, Error("Note not found.", None))
  ELSE FileOutcome(dir, [t \in DOMAIN files \ {title} |-> files[t]],
                   Message("Note deleted successfully."))

list_all_notes(dir, files) ==
  IF ~dir THEN FileOutcome(dir, files, NoteReturn("notes", "", None, None, {}))
  ELSE FileOutcome(dir, files, NoteReturn("notes", "", None, None, DOMAIN files))

read_note_content(dir, files, title) ==
  IF title \notin DOMAIN files
  THEN FileOutcome(dir, files, Error("Note not found.", None))
  ELSE FileOutcome(dir, files, NoteReturn("content", "", None, Some(files[title]), {}))

\* The state of a walk: the document so far, where current is, what stopped it
Walk(doc, cur, stop) == [doc |-> doc, cur |-> cur, stop |-> stop]

RECURSIVE EditWalkClobber(_, _, _, _)
\* Mutant of EditWalk: every intermediate key is set to {}, present or not
EditWalkClobber(doc, cur, key, i) ==
  IF i > Len(key) - 1 THEN Walk(doc, cur, None)
  ELSE IF ~NodeAt(doc, cur).dict THEN Walk(doc, cur, Some(NoteRaised("TypeError")))
  ELSE EditWalkClobber(Put(doc, Append(cur, key[i]), Dict), Append(cur, key[i]), key, i + 1)

RECURSIVE EditWalk(_, _, _, _)
\* Lines 88-91, from the i-th key on: on a string, current[k] = {} and
\* current = current[k] both raise TypeError
EditWalk(doc, cur, key, i) ==
  IF i > Len(key) - 1 THEN Walk(doc, cur, None)
  ELSE IF ~NodeAt(doc, cur).dict THEN Walk(doc, cur, Some(NoteRaised("TypeError")))
  ELSE EditWalk(IF ~KeyIn(doc, cur, key[i]) THEN Put(doc, Append(cur, key[i]), Dict) ELSE doc,
                Append(cur, key[i]), key, i + 1)

edit_note_value(dir, files, title, key, value) ==
  IF title \notin DOMAIN files
  THEN FileOutcome(dir, files, Error("Note not found.", None))
  ELSE
    LET w == EditWalk(files[title], <<>>, key, 1)
    IN IF w.stop # None THEN FileOutcome(dir, files, The(w.stop))
       ELSE IF key = <<>> THEN FileOutcome(dir, files, NoteRaised("IndexError"))
       ELSE IF ~NodeAt(w.doc, w.cur).dict
       THEN FileOutcome(dir, files, NoteRaised("TypeError"))
       ELSE FileOutcome(dir,
                        WriteFile(files, title,
                                  Put(w.doc, Append(w.cur, key[Len(key)]), Str(value))),
                        Message("Note updated successfully."))

\* Lines 121-126, the i-th pass: current is the root throughout, the loop
\* never moves it
InsertStep(doc, key, i) ==
  LET p == <<key[i]>>
  IN IF p \notin DOMAIN doc THEN Put(doc, p, Dict)
     ELSE IF ~doc[p].dict /\ i + 1 <= Len(key)
     THEN Put(Put(doc, p, Dict), <<key[i], key[i + 1]>>, doc[p])
     ELSE doc

RECURSIVE InsertLoop(_, _, _)
InsertLoop(doc, key, i) ==
  IF i > Len(key) THEN doc ELSE InsertLoop(InsertStep(doc, key, i), key, i + 1)

insert_key_path(dir, files, title, key) ==
  IF title \notin DOMAIN files
  THEN FileOutcome(dir, files, Error("Note not found.", None))
  ELSE FileOutcome(dir, WriteFile(files, title, InsertLoop(files[title], key, 1)),
                   Message("Key inserted successfully."))

\* Mutant of DeleteKey: the parent object is emptied
DeleteKeyClearsParent(doc, p) ==
  [q \in {r \in DOMAIN doc : ~(Len(r) >= Len(p) /\ IsPrefix(SubSeq(p, 1, Len(p) - 1), r))}
     |-> doc[q]]

\* del current[key[-1]], p the path of the key
DeleteKey(doc, p) == Without(doc, p)

RECURSIVE DeleteWalk(_, _, _, _)
\* Lines 153-156, from the i-th key on: on a string, `k not in current` is a
\* substring test and current = current[k] raises TypeError
DeleteWalk(doc, cur, key, i) ==
  IF i > Len(key) - 1 THEN Walk(doc, cur, None)
  ELSE IF ~KeyIn(doc, cur, key[i])
  THEN Walk(doc, cur, Some(Error("Path not found", Some(key[i]))))
  ELSE IF ~NodeAt(doc, cur).dict THEN Walk(doc, cur, Some(NoteRaised("TypeError")))
  ELSE DeleteWalk(doc, Append(cur, key[i]), key, i + 1)

delete_key_path(dir, files, title, key) ==
  IF title \notin DOMAIN files
  THEN FileOutcome(dir, files, Error("Note not found.", None))
  ELSE
    LET w == DeleteWalk(files[title], <<>>, key, 1)
    IN IF w.stop # None THEN FileOutcome(dir, files, The(w.stop))
       ELSE IF key = <<>> THEN FileOutcome(dir, files, NoteRaised("IndexError"))
       ELSE IF ~KeyIn(w.doc, w.cur, key[Len(key)])
       THEN FileOutcome(dir, files, Error("Key not found", Some(key[Len(key)])))
       ELSE IF ~NodeAt(w.doc, w.cur).dict
       THEN FileOutcome(dir, files, NoteRaised("TypeError"))
       ELSE FileOutcome(dir,
                        WriteFile(files, title, DeleteKey(w.doc, Append(w.cur, key[Len(key)]))),
                        Message("Key deleted successfully."))

NoNoteCall ==
  [op |-> "", title |-> "", key |-> <<>>, value |-> <<>>,
   dirBefore |-> FALSE, before |-> [t \in {} |-> EmptyDoc]]

NotesIdle ==
  /\ notesDir = FALSE
  /\ notes = [t \in {} |-> EmptyDoc]
  /\ live = {}
  /\ noteCall = NoNoteCall
  /\ noteResult = Message("")

\* No directory listing, no concurrent invocation
RunIdle ==
  /\ calendars = <<>>
  /\ fileLen = [t \in {} |-> 0]
  /\ procs = [p \in {} |-> 0]
  /\ history = <<>>
  /\ tools = [p \in {} |-> 0]

----------------------------------------------------------------------------
(* Calendar data the operations are run on *)

\* Longest recurrence list of the parent event
MaxRules == 2

\* Remote calls one operation issues at most (get, get, update)
MaxRemoteCalls == 3

\* Update and create operations performed in one run
MaxUpdates == 1

AICalendarId == "cal-AI"

\* "2025-06-<d>T<h>:00:00<off>"
DateTimeText(d, h, off) == <<"2025", "-", "06", "-", d, "T", h, ":", "00", ":", "00", off>>

\* "2025-06-<d>"
DateText(d) == <<"2025", "-", "06", "-", d>>

\* The start objects an instance can carry: an instant with an offset, an
\* all-day date, or none (a cancelled instance carries no start)
InstanceStarts ==
  { Some(TimePoint(Some(DateTimeText("10", "09", "Z")), None)),
    Some(TimePoint(Some(DateTimeText("10", "09", "+09:00")), None)),
    Some(TimePoint(Some(DateTimeText("10", "23", "-05:00")), None)),
    Some(TimePoint(None, Some(DateText("10")))),
    Some(TimePoint(None, None)),
    None }

FreqPart == <<"FREQ=DAILY">>
UntilPart == <<"UNTIL=", "20250601T000000Z">>
CountPart == <<"COUNT=", "5">>
IntervalPart == <<"INTERVAL=2">>

RRule(parts) == <<"RRULE:">> \o Join(parts, ";")

\* Rules with UNTIL or COUNT absent, last, in the middle and first
Rules ==
  { RRule(<<FreqPart>>),
    RRule(<<FreqPart, UntilPart>>),
    RRule(<<FreqPart, CountPart>>),
    RRule(<<FreqPart, CountPart, IntervalPart>>),
    RRule(<<UntilPart, FreqPart>>),
    RRule(<<CountPart, FreqPart>>),
    <<"EXDATE:", "20250611T090000Z">> }

RecurrenceLists == UNION {[1..n -> Rules] : n \in 0..MaxRules}

ParentStart == Some(TimePoint(Some(DateTimeText("03", "09", "Z")), None))
NewTime == DateTimeText("20", "12", "+09:00")

InstanceEvent(start) == Event("inst", Some("S0"), None, start, start, Some("parent"), None)
ParentEvent(recurrence) ==
  Event("parent", Some("S0"), Some("D0"), ParentStart, ParentStart, None, recurrence)

Store(start, recurrence) ==
  [e \in {"inst", "parent"} |->
     IF e = "inst" THEN InstanceEvent(start) ELSE ParentEvent(recurrence)]

\* "ghost" is an id the calendar does not hold
EventIds == {"inst", "parent", "ghost"}
FreshIds == {"created"}

NoCall ==
  [op |-> "", event_id |-> "", following |-> FALSE, summary |-> None,
   start_time |-> None, end_time |-> None, description |-> None, failAt |-> 0]

NoResult == Returned("", None, "", None, None, None)

----------------------------------------------------------------------------
(* Calendar operations as steps *)

Finish(o, call) ==
  /\ events' = o.events
  /\ calls' = o.calls
  /\ result' = o.result
  /\ lastCall' = call
  /\ UNCHANGED noteVars
  /\ UNCHANGED runVars

\* The delete operations of a run are not bounded: the calendar they reach is finite
DeleteEvent ==
  /\ UNCHANGED steps
  /\ \E event_id \in EventIds, following \in BOOLEAN, failAt \in 0..MaxRemoteCalls :
    Finish(delete_event_from_calendar(events, AICalendarId, event_id, following, failAt),
           [NoCall EXCEPT !.op = "delete_event", !.event_id = event_id,
                          !.following = following, !.failAt = failAt])

CreateEvent ==
  /\ steps < MaxUpdates
  /\ steps' = steps + 1
  /\ \E new_id \in FreshIds \ DOMAIN events, description \in {None, Some(""), Some("D1")},
     failAt \in 0..1 :
    Finish(create_event_in_calendar(events, AICalendarId, "S1", NewTime, NewTime,
                                    description, new_id, failAt),
           [NoCall EXCEPT !.op = "create_event", !.summary = Some("S1"),
                          !.start_time = Some(NewTime), !.end_time = Some(NewTime),
                          !.description = description, !.failAt = failAt])

UpdateEvent ==
  /\ steps < MaxUpdates
  /\ steps' = steps + 1
  /\ \E event_id \in EventIds, following \in BOOLEAN, failAt \in 0..MaxRemoteCalls,
     summary \in {None, Some("S1")}, description \in {None, Some("D1")},
     start_time \in {None, Some(NewTime)}, end_time \in {None, Some(NewTime)} :
    Finish(update_event_in_calendar(events, AICalendarId, event_id, summary, start_time,
                                    end_time, description, following, failAt),
           [op |-> "update_event", event_id |-> event_id, following |-> following,
            summary |-> summary, start_time |-> start_time, end_time |-> end_time,
            description |-> description, failAt |-> failAt])

InitDelete ==
  /\ \E start \in InstanceStarts, recurrence \in {None} \cup {Some(r) : r \in RecurrenceLists} :
       events = Store(start, recurrence)
  /\ calls = <<>>
  /\ result = NoResult
  /\ lastCall = NoCall
  /\ steps = 0
  /\ NotesIdle
  /\ RunIdle

NextDelete == DeleteEvent

SpecDelete == InitDelete /\ [][NextDelete]_vars

InitUpdate ==
  /\ \E start \in {Some(TimePoint(Some(DateTimeText("10", "09", "+09:00")), None)),
                   Some(TimePoint(None, Some(DateText("10")))), None} :
       events = Store(start, Some(<<RRule(<<FreqPart>>)>>))
  /\ calls = <<>>
  /\ result = NoResult
  /\ lastCall = NoCall
  /\ steps = 0
  /\ NotesIdle
  /\ RunIdle

NextUpdate == UpdateEvent \/ CreateEvent

SpecUpdate == InitUpdate /\ [][NextUpdate]_vars

----------------------------------------------------------------------------
(* Reading the last calendar operation *)

DeleteReturned == lastCall.op = "delete_event" /\ result.exception = None
UpdateReturned == lastCall.op = "update_event" /\ result.exception = None
Truncated == DeleteReturned /\ result.status = "deleted_following_instances"

IsMutating(c) == c.op \in {"insert", "update", "delete"}
MutatingCalls == SelectSeq(calls, IsMutating)

\* The event the operation fetched first, and the parent it fetched second
FetchedEvent == The(calls[1].body)
FetchedParent == The(calls[2].body)

HasRecurringEventId(e) == e.recurringEventId \notin {None, Some("")}

\* The event carries a start with a non-empty dateTime or date
HasStartValue(e) ==
  /\ e.start # None
  /\ \/ The(e.start).dateTime \notin {None, Some(<<>>)}
     \/ The(e.start).date \notin {None, Some(<<>>)}

\* The start text of the instance: the dateTime when it has one, else the date
StartText(e) ==
  IF The(e.start).dateTime \notin {None, Some(<<>>)}
  THEN The(The(e.start).dateTime) ELSE The(The(e.start).date)

TwoDigits ==
  <<"00", "01", "02", "03", "04", "05", "06", "07", "08", "09", "10", "11", "12", "13",
    "14", "15", "16", "17", "18", "19", "20", "21", "22", "23", "24", "25", "26", "27",
    "28", "29", "30", "31">>

NumberOf(s) == CHOOSE n \in 0..31 : TwoDigits[n + 1] = s

OffsetHours(off) ==
  IF off = "+09:00" THEN 9 ELSE IF off = "-05:00" THEN 0 - 5 ELSE 0

\* The instant of a start text in UTC as YYYYMMDDTHHMMSSZ; a date as YYYYMMDD
InstantInUTC(text) ==
  IF Len(text) = 5 THEN <<text[1], text[3], text[5]>>
  ELSE LET h == NumberOf(text[5]) * 24 + NumberOf(text[7]) - OffsetHours(text[12])
       IN <<text[1], text[3], TwoDigits[(h \div 24) + 1], "T", TwoDigits[(h % 24) + 1],
            text[9], text[11], "Z">>

\* The parameters of an RRULE rule, and those of one name
Params(rule) == Split(Tail(rule), ";")
IsUntil(p) == StartsWith(p, "UNTIL=")
IsCount(p) == StartsWith(p, "COUNT=")

\* The rule ends with ;UNTIL=<until>
EndsWithUntil(rule, until) ==
  LET n == Len(until) + 2
  IN Len(rule) > n /\ SubSeq(rule, Len(rule) - n + 1, Len(rule)) = <<";", "UNTIL=">> \o until

----------------------------------------------------------------------------
(* C1 - C4 *)

\* C1: after a tail-truncating deleteEvent the UNTIL boundary returned is the
\* instant of the instance's start: a date-time start, whatever its UTC offset,
\* converted to UTC and written YYYYMMDDTHHMMSSZ; a date-only start written YYYYMMDD.
C1_UntilIsStartInstant ==
  Truncated => The(result.until_date) = InstantInUTC(StartText(FetchedEvent))

\* C2: after a tail-truncating deleteEvent every RRULE: rule pushed to the parent
\* holds exactly one UNTIL= parameter, equal to the until value returned, and no
\* COUNT= parameter; other rules are unchanged; number and order are preserved.
C2_OneUntilPerRule ==
  Truncated =>
    LET old == GetOr(FetchedParent.recurrence, <<>>)
        new == The(The(calls[3].body).recurrence)
    IN /\ Len(new) = Len(old)
       /\ \A i \in 1..Len(old) :
            IF StartsWith(old[i], "RRULE:")
            THEN /\ StartsWith(new[i], "RRULE:")
                 /\ Len(SelectSeq(Params(new[i]), IsUntil)) = 1
                 /\ Tail(SelectSeq(Params(new[i]), IsUntil)[1]) = The(result.until_date)
                 /\ Len(SelectSeq(Params(new[i]), IsCount)) = 0
            ELSE new[i] = old[i]

\* The single-event outcome: one delete of eventId, tagged deleted
DeletedSingle(nGets) ==
  /\ Len(calls) = nGets + 1
  /\ calls[nGets + 1].op = "delete"
  /\ calls[nGets + 1].eventId = lastCall.event_id
  /\ result.status = "deleted"

\* The truncating outcome: one update of the parent id carrying the parent with
\* its recurrence rewritten, no delete, tagged deleted_following_instances
TruncatedParent ==
  /\ Len(calls) = 3
  /\ calls[2].op = "get" /\ calls[2].eventId = The(FetchedEvent.recurringEventId)
  /\ calls[3].op = "update"
  /\ calls[3].eventId = The(FetchedEvent.recurringEventId)
  /\ calls[3].eventId # lastCall.event_id
  /\ \A i \in 1..Len(calls) : calls[i].op # "delete"
  /\ result.status = "deleted_following_instances"
  /\ result.until_date # None
  /\ LET body == The(calls[3].body)
         old == GetOr(FetchedParent.recurrence, <<>>)
         new == GetOr(body.recurrence, <<>>)
     IN /\ body = [FetchedParent EXCEPT !.recurrence = body.recurrence]
        /\ events[calls[3].eventId] = body
        /\ Len(new) = Len(old)
        /\ \A i \in 1..Len(old) :
             IF StartsWith(old[i], "RRULE:")
             THEN EndsWithUntil(new[i], The(result.until_date))
             ELSE new[i] = old[i]

OverriddenOnly(body, base) ==
  /\ body.id = base.id
  /\ body.recurringEventId = base.recurringEventId
  /\ body.recurrence = base.recurrence
  /\ body.summary = (IF lastCall.summary # None THEN lastCall.summary ELSE base.summary)
  /\ body.description =
       (IF lastCall.description # None THEN lastCall.description ELSE base.description)
  /\ IF lastCall.start_time # None
     THEN /\ The(body.start).dateTime = lastCall.start_time
          /\ The(body.start).date = The(base.start).date
     ELSE body.start = base.start
  /\ IF lastCall.end_time # None
     THEN /\ The(body.end).dateTime = lastCall.end_time
          /\ The(body.end).date = The(base.end).date
     ELSE body.end = base.end

OnParentPath == lastCall.following /\ HasRecurringEventId(FetchedEvent)

\* C4: every successful updateEvent pushes exactly one update: of the parent id
\* with the fetched parent as body when updateFollowingInstances is true and the
\* fetched event has a recurringEventId, else of eventId with the fetched event
\* as body; the body differs from the fetched object only in the fields whose
\* argument is non-null; the status names the path taken.
C4_OneUpdateWithFrame ==
  UpdateReturned =>
    /\ Len(MutatingCalls) = 1
    /\ MutatingCalls[1] = calls[Len(calls)]
    /\ calls[Len(calls)].op = "update"
    /\ calls[1].op = "get" /\ calls[1].eventId = lastCall.event_id
    /\ IF OnParentPath
       THEN /\ Len(calls) = 3
            /\ calls[2].op = "get"
            /\ calls[2].eventId = The(FetchedEvent.recurringEventId)
            /\ calls[3].eventId = The(FetchedEvent.recurringEventId)
            /\ OverriddenOnly(The(calls[3].body), FetchedParent)
            /\ result.status = "updated_following_instances"
       ELSE /\ Len(calls) = 2
            /\ calls[2].eventId = lastCall.event_id
            /\ OverriddenOnly(The(calls[2].body), FetchedEvent)
            /\ result.status = "updated"

\* An all-day instance got a new start through the single-event path, its
\* summary left alone
C4_Witness ==
  /\ UpdateReturned
  /\ ~OnParentPath
  /\ lastCall.event_id = "inst"
  /\ lastCall.start_time # None /\ lastCall.summary = None
  /\ The(FetchedEvent.start).date # None
  /\ The(events["inst"].start).date # None

----------------------------------------------------------------------------
(* Note data the operations are run on *)

\* Longest key path given to an operation
MaxPathLen == 2

\* Key-path operations (setValue, insertPath, deletePath) performed in one run
MaxNoteOps == 3

Keys == {"a", "b"}

\* The strings "b" and "x": the first contains the key "b"
Values == {<<"b">>, <<"x">>}

KeyPaths == UNION {[1..n -> Keys] : n \in 0..MaxPathLen}

\* deletePath is also given paths one key longer than any the document holds
DeletePaths == UNION {[1..n -> Keys] : n \in 0..(MaxPathLen + 1)}

\* The titles of the key-path runs and of the create/delete runs
OneTitle == {"n1"}
Titles == {"n1", "n2", "n3"}

CalendarIdle ==
  /\ events = [e \in {} |-> InstanceEvent(None)]
  /\ calls = <<>>
  /\ result = NoResult
  /\ lastCall = NoCall

----------------------------------------------------------------------------
(* Note operations as steps *)

NoteFinish(o, op, title, key, value) ==
  /\ notesDir' = o.notesDir
  /\ notes' = o.notes
  /\ noteResult' = o.result
  /\ noteCall' = [op |-> op, title |-> title, key |-> key, value |-> value,
                  dirBefore |-> notesDir, before |-> notes]
  /\ UNCHANGED calVars
  /\ UNCHANGED runVars

CreateNoteFile(T) ==
  \E title \in T :
    LET o == create_note_file(notesDir, notes, title)
    IN /\ NoteFinish(o, "create", title, <<>>, <<>>)
       /\ live' = IF o.result.kind = "message" THEN live \cup {title} ELSE live
       /\ UNCHANGED steps

CreateNoteTool(T) ==
  \E title \in T :
    LET o == create_note(notesDir, notes, title)
    IN /\ NoteFinish(o, "create_note", title, <<>>, <<>>)
       /\ live' = IF o.result.kind = "message" THEN live \cup {title} ELSE live
       /\ UNCHANGED steps

DeleteNoteFile(T) ==
  \E title \in T :
    LET o == delete_note_file(notesDir, notes, title)
    IN /\ NoteFinish(o, "delete", title, <<>>, <<>>)
       /\ live' = IF o.result.kind = "message" THEN live \ {title} ELSE live
       /\ UNCHANGED steps

ListNotes ==
  /\ NoteFinish(list_all_notes(notesDir, notes), "list", "", <<>>, <<>>)
  /\ UNCHANGED <<live, steps>>

ReadNote(T) ==
  \E title \in T :
    /\ NoteFinish(read_note_content(notesDir, notes, title), "read", title, <<>>, <<>>)
    /\ UNCHANGED <<live, steps>>

EditNoteValue(T, P) ==
  /\ steps < MaxNoteOps
  /\ steps' = steps + 1
  /\ \E title \in T, key \in P, value \in Values :
       NoteFinish(edit_note_value(notesDir, notes, title, key, value),
                  "setValue", title, key, value)
  /\ UNCHANGED live

InsertKeyPath(T, P) ==
  /\ steps < MaxNoteOps
  /\ steps' = steps + 1
  /\ \E title \in T, key \in P :
       NoteFinish(insert_key_path(notesDir, notes, title, key),
                  "insertPath", title, key, <<>>)
  /\ UNCHANGED live

DeleteKeyPath(T, P) ==
  /\ steps < MaxNoteOps
  /\ steps' = steps + 1
  /\ \E title \in T, key \in P :
       NoteFinish(delete_key_path(notesDir, notes, title, key),
                  "deletePath", title, key, <<>>)
  /\ UNCHANGED live

InitNote ==
  /\ NotesIdle
  /\ steps = 0
  /\ CalendarIdle
  /\ RunIdle

\* Key-path editing of one note
NextNote ==
  \/ CreateNoteFile(OneTitle)
  \/ DeleteNoteFile(OneTitle)
  \/ ReadNote(OneTitle)
  \/ EditNoteValue(OneTitle, KeyPaths)
  \/ InsertKeyPath(OneTitle, KeyPaths)
  \/ DeleteKeyPath(OneTitle, DeletePaths)

SpecNote == InitNote /\ [][NextNote]_vars

\* Creating, deleting and listing notes; setValue gives them content
NextTitles ==
  \/ CreateNoteFile(Titles)
  \/ CreateNoteTool(Titles)
  \/ DeleteNoteFile(Titles)
  \/ ListNotes
  \/ ReadNote(Titles)
  \/ EditNoteValue(Titles, {<<"a">>})

SpecTitles == InitNote /\ [][NextTitles]_vars

----------------------------------------------------------------------------
(* Reading the last note operation *)

NoteExisted == noteCall.title \in DOMAIN noteCall.before
DocBefore == noteCall.before[noteCall.title]
DocAfter == notes[noteCall.title]
NoteKey == noteCall.key
Succeeded == noteResult.kind = "message"

\* The prefix of the key path that ends at its i-th key
Upto(i) == SubSeq(NoteKey, 1, i)

\* q is neither on the key path nor below its end
OffPath(q) == ~IsPrefix(q, NoteKey) /\ ~IsPrefix(NoteKey, q)

\* Every intermediate key that exists in the document holds an object
IntermediatesAreObjects ==
  \A i \in 1..(Len(NoteKey) - 1) : Upto(i) \in DOMAIN DocBefore => DocBefore[Upto(i)].dict

\* The document {k1: {k2: s}} written out
Nested(k1, k2, s) == [p \in {<<k1>>, <<k1, k2>>} |-> IF p = <<k1>> THEN Dict ELSE Str(s)]

----------------------------------------------------------------------------
(* C5 - C10 *)

\* C5: insertPath(title, [k1, k2]) on a document whose key k1 holds a non-object
\* s yields the same document with k1 replaced by {k2: s} and nothing else
\* added or changed; from {"a": "x"}, insertPath(["a", "b"]) yields {"a": {"b": "x"}}.
C5_DemotionOnly ==
  (/\ noteCall.op = "insertPath" /\ NoteExisted /\ Len(NoteKey) = 2
   /\ <<NoteKey[1]>> \in DOMAIN DocBefore /\ ~DocBefore[<<NoteKey[1]>>].dict)
  =>
    /\ Succeeded
    /\ DocAfter = Put(Put(DocBefore, Upto(1), Dict), NoteKey, DocBefore[Upto(1)])
    /\ (DocBefore = [p \in {<<"a">>} |-> Str(<<"x">>)] /\ NoteKey = <<"a", "b">>
          => DocAfter = Nested("a", "b", <<"x">>))

\* C6: after a successful insertPath(title, [k1..kn]), n >= 2, walking k1..kn
\* from the root resolves at every step, the keys that were absent are empty
\* objects at their nested position, and no root key other than k1 is added.
C6_NestedPathCreated ==
  (noteCall.op = "insertPath" /\ NoteExisted /\ Succeeded /\ Len(NoteKey) >= 2)
  =>
    /\ \A i \in 1..Len(NoteKey) : Upto(i) \in DOMAIN DocAfter
    /\ \A i \in 1..(Len(NoteKey) - 1) : DocAfter[Upto(i)].dict
    /\ \A i \in 1..Len(NoteKey) : Upto(i) \notin DOMAIN DocBefore => DocAfter[Upto(i)] = Dict
    /\ \A q \in DOMAIN DocAfter : Len(q) = 1 /\ q \notin DOMAIN DocBefore => q = Upto(1)

\* C7: for an existing document, a non-empty path whose existing intermediate
\* keys all hold objects, and any value v: after setValue(title, path, v),
\* read(title) returns a document in which walking path yields v, the missing
\* intermediate keys are objects, and every key not on the path keeps its
\* value; setValue(["a","b"], "x") on the empty document reads {"a": {"b": "x"}}.
C7_SetThenRead ==
  (/\ noteCall.op = "setValue" /\ NoteExisted /\ NoteKey # <<>>
   /\ IntermediatesAreObjects)
  =>
    /\ Succeeded
    /\ LET r == read_note_content(notesDir, notes, noteCall.title).result
       IN /\ r.kind = "content"
          /\ LET doc == The(r.content)
             IN /\ NoteKey \in DOMAIN doc /\ doc[NoteKey] = Str(noteCall.value)
                /\ \A q \in DOMAIN doc : ~(IsPrefix(NoteKey, q) /\ q # NoteKey)
                /\ \A i \in 1..(Len(NoteKey) - 1) :
                     Upto(i) \in DOMAIN doc /\ doc[Upto(i)].dict
                /\ \A q \in DOMAIN doc \cup DOMAIN DocBefore :
                     OffPath(q) =>
                       q \in DOMAIN doc /\ q \in DOMAIN DocBefore /\ doc[q] = DocBefore[q]
                /\ (DocBefore = EmptyDoc /\ NoteKey = <<"a", "b">> /\ noteCall.value = <<"x">>
                      => doc = Nested("a", "b", <<"x">>))

\* A string leaf was overwritten by another value, its sibling kept
C7_Witness ==
  /\ noteCall.op = "setValue" /\ NoteExisted /\ Succeeded
  /\ NoteKey = <<"a", "b">>
  /\ NoteKey \in DOMAIN DocBefore
  /\ DocBefore[NoteKey] # Str(noteCall.value)
  /\ <<"a", "a">> \in DOMAIN DocBefore
  /\ <<"a", "a">> \in DOMAIN DocAfter

PathNotFoundAt(i) ==
  /\ noteResult = Error("Path not found", Some(NoteKey[i]))
  /\ Upto(i) \notin DOMAIN DocBefore
  /\ \A j \in 1..(i - 1) : Upto(j) \in DOMAIN DocBefore

KeyNotFound ==
  /\ noteResult = Error("Key not found", Some(NoteKey[Len(NoteKey)]))
  /\ NoteKey \notin DOMAIN DocBefore
  /\ \A j \in 1..(Len(NoteKey) - 1) : Upto(j) \in DOMAIN DocBefore

IsCreate == noteCall.op \in {"create", "create_note"}

\* C9: listTitles returns exactly the titles whose last successful create or
\* delete was a create (the empty list when nothing was created); create on an
\* existing title fails with AlreadyExists and leaves the content unchanged;
\* delete on an absent title fails with NotFound; a freshly created document
\* reads as the empty object; create succeeds again after delete.
C9_TitlesFollowCreateDelete ==
  /\ list_all_notes(notesDir, notes).result = NoteReturn("notes", "", None, None, live)
  /\ noteCall.op = "list" => noteResult.kind = "notes" /\ noteResult.titles = live
  /\ IsCreate /\ NoteExisted =>
       /\ noteResult = Error("Note with this title already exists.", None)
       /\ notes = noteCall.before
  /\ IsCreate /\ ~NoteExisted =>
       /\ Succeeded
       /\ read_note_content(notesDir, notes, noteCall.title).result.content = Some(EmptyDoc)
       /\ \A t \in DOMAIN noteCall.before : t \in DOMAIN notes /\ notes[t] = noteCall.before[t]
  /\ noteCall.op = "delete" /\ ~NoteExisted =>
       /\ noteResult = Error("Note not found.", None)
       /\ notes = noteCall.before
  /\ noteCall.op = "delete" /\ NoteExisted =>
       /\ Succeeded
       /\ create_note_file(notesDir, notes, noteCall.title).result.kind = "message"
       /\ create_note(notesDir, notes, noteCall.title).result.kind = "message"
       /\ read_note_content(notesDir, notes, noteCall.title).result
            = Error("Note not found.", None)

\* A create was refused on a note that has content, two other titles listed
C9_Witness ==
  /\ noteCall.op = "create" /\ NoteExisted
  /\ noteResult.kind = "error"
  /\ DocAfter # EmptyDoc
  /\ Cardinality(live) = 2
  /\ noteCall.title \in live

\* C10: every failure inside an operation comes back as an {error: message}
\* result and never as an exception: a failing remote fetch, update, insert or
\* delete, and key-path navigation through a non-object value. (The empty key
\* path, whose behaviour is left open, is not counted.)
C10_FailuresAreReturned ==
  /\ result.exception = None
  /\ NoteKey # <<>> => noteResult.kind # "raised"

----------------------------------------------------------------------------
(* The bytes of a note file *)

\* Characters of a string given as chunks
RECURSIVE StrLen(_)
StrLen(s) == IF s = <<>> THEN 0 ELSE Len(Head(s)) + StrLen(Tail(s))

\* The keys of the object at path p
Children(doc, p) == {q \in DOMAIN doc : Len(q) = Len(p) + 1 /\ IsPrefix(p, q)}

RECURSIVE TextLen(_, _)
RECURSIVE MembersLen(_, _)
\* Members of an object, one per line: newline, indent, "key", colon, space, value
MembersLen(doc, qs) ==
  IF qs = {} THEN 0
  ELSE LET q == CHOOSE r \in qs : TRUE
       IN 1 + 2 * Len(q) + (Len(q[Len(q)]) + 2) + 2 + TextLen(doc, q)
          + MembersLen(doc, qs \ {q})

\* Characters json.dump(content, f, indent=2) writes for the node at path p:
\* "..." for a string, {} for an empty object, otherwise the members between
\* braces, separated by commas, the closing brace on a line of its own
TextLen(doc, p) ==
  IF ~NodeAt(doc, p).dict THEN StrLen(doc[p].str) + 2
  ELSE IF Children(doc, p) = {} THEN 2
  ELSE 1 + MembersLen(doc, Children(doc, p)) + (Cardinality(Children(doc, p)) - 1)
       + 1 + 2 * Len(p) + 1

\* The files of ./notes with their lengths
Disk(files, lens) == [notes |-> files, fileLen |-> lens]

\* The file holds exactly the text of its document: nothing is left behind it
ValidJson(files, lens, title) == lens[title] = TextLen(files[title], <<>>)

\* open(note_path, "r") and json.load(f): the document, or the exception
JsonLoad(files, lens, title) ==
  IF title \notin DOMAIN files THEN [doc |-> None, exc |-> Some("FileNotFoundError")]
  ELSE IF ~ValidJson(files, lens, title) THEN [doc |-> None, exc |-> Some("JSONDecodeError")]
  ELSE [doc |-> Some(files[title]), exc |-> None]

\* Mutant of OpenForWrite: the file is opened without being truncated
OpenKeepingBytes(files, lens, title) ==
  Disk(files, lens)

\* open(note_path, "w"): the file is created or truncated to no bytes
OpenForWrite(files, lens, title) ==
  Disk(WriteFile(files, title, EmptyDoc),
       [t \in DOMAIN lens \cup {title} |-> IF t = title THEN 0 ELSE lens[t]])

\* json.dump(content, f, indent=2) and the close of f: the text goes to the
\* start of the file, over what another writer put there since the open;
\* bytes beyond the text stay
DumpAndClose(files, lens, title, content) ==
  Disk(WriteFile(files, title, content),
       [t \in DOMAIN lens \cup {title} |->
          IF t # title THEN lens[t]
          ELSE IF title \in DOMAIN lens /\ lens[title] > TextLen(content, <<>>)
          THEN lens[title] ELSE TextLen(content, <<>>)])

\* Lines 87-93 on the loaded content: the walk and the assignment
EditInMemory(content, key, value) ==
  LET w == EditWalk(content, <<>>, key, 1)
  IN IF w.stop # None THEN w
     ELSE IF key = <<>> THEN Walk(content, <<>>, Some(NoteRaised("IndexError")))
     ELSE IF ~NodeAt(w.doc, w.cur).dict
     THEN Walk(content, w.cur, Some(NoteRaised("TypeError")))
     ELSE Walk(Put(w.doc, Append(w.cur, key[Len(key)]), Str(value)), w.cur, None)

----------------------------------------------------------------------------
(* edit_note_value, one file-system step at a time, by two invocations *)

\* Invocations that may run at once
Writers == {"w1", "w2"}

EditTitle == "n1"

\* Key paths the invocations set; the last one walks through the key "a"
EditKeys == {<<"a">>, <<"b">>, <<"a", "b">>}

\* The strings "x" and "xy": their texts differ in length
NewValues == {<<"x">>, <<"x", "y">>}

\* The string the file holds before, never one of the strings set
OldValue == <<"o">>

\* Documents of the file at the start: {}, {"a": "o"}, {"c": "o"}
StartDocs ==
  {EmptyDoc, Put(EmptyDoc, <<"a">>, Str(OldValue)), Put(EmptyDoc, <<"c">>, Str(OldValue))}

\* An invocation: the line it is about to run, its arguments, the document it
\* loaded, the content it holds, what it returned
Invocation(pc, key, value, loaded, content, res) ==
  [pc |-> pc, key |-> key, value |-> value, loaded |-> loaded, content |-> content,
   result |-> res]

NotInvoked == Invocation("idle", <<>>, <<>>, None, None, None)

Step(p, what) == [proc |-> p, step |-> what]

EditFrame == UNCHANGED <<calVars, notesDir, live, noteCall, noteResult, steps, calendars, tools>>

\* Lines 79-81: the call and the os.path.exists test
EditInvoke(p) ==
  /\ procs[p].pc = "idle"
  /\ \E key \in EditKeys, value \in NewValues :
       procs' = [procs EXCEPT ![p] =
                   IF EditTitle \notin DOMAIN notes
                   THEN Invocation("done", key, value, None, None, Some(Error("Note not found.", None)))
                   ELSE Invocation("load", key, value, None, None, None)]
  /\ history' = Append(history, Step(p, "exists"))
  /\ UNCHANGED <<notes, fileLen>>
  /\ EditFrame

\* Lines 83-93: the file is read whole, the content is changed in memory
EditLoad(p) ==
  /\ procs[p].pc = "load"
  /\ LET f == JsonLoad(notes, fileLen, EditTitle)
         w == EditInMemory(The(f.doc), procs[p].key, procs[p].value)
     IN procs' = [procs EXCEPT ![p] =
                    IF f.exc # None
                    THEN [@ EXCEPT !.pc = "done", !.result = Some(NoteRaised(The(f.exc)))]
                    ELSE IF w.stop # None
                    THEN [@ EXCEPT !.pc = "done", !.loaded = f.doc, !.result = w.stop]
                    ELSE [@ EXCEPT !.pc = "open", !.loaded = f.doc, !.content = Some(w.doc)]]
  /\ history' = Append(history, Step(p, "load"))
  /\ UNCHANGED <<notes, fileLen>>
  /\ EditFrame

\* Line 95: the file is opened for writing
EditOpen(p) ==
  /\ procs[p].pc = "open"
  /\ LET d == OpenForWrite(notes, fileLen, EditTitle)
     IN /\ notes' = d.notes
        /\ fileLen' = d.fileLen
  /\ procs' = [procs EXCEPT ![p].pc = "dump"]
  /\ history' = Append(history, Step(p, "open"))
  /\ EditFrame

\* Lines 96-98: the content is written, the file closed, the message returned
EditDump(p) ==
  /\ procs[p].pc = "dump"
  /\ LET d == DumpAndClose(notes, fileLen, EditTitle, The(procs[p].content))
     IN /\ notes' = d.notes
        /\ fileLen' = d.fileLen
  /\ procs' = [procs EXCEPT ![p].pc = "done",
                            ![p].result = Some(Message("Note updated successfully."))]
  /\ history' = Append(history, Step(p, "dump"))
  /\ EditFrame

InitEdit ==
  /\ CalendarIdle
  /\ \E doc \in StartDocs :
       /\ notes = [t \in {EditTitle} |-> doc]
       /\ fileLen = [t \in {EditTitle} |-> TextLen(doc, <<>>)]
  /\ notesDir = TRUE
  /\ live = {EditTitle}
  /\ noteCall = NoNoteCall
  /\ noteResult = Message("")
  /\ steps = 0
  /\ calendars = <<>>
  /\ tools = [p \in {} |-> 0]
  /\ procs = [p \in Writers |-> NotInvoked]
  /\ history = <<>>

NextEdit ==
  \E p \in Writers :
    \/ EditInvoke(p)
    \/ EditLoad(p)
    \/ EditOpen(p)
    \/ EditDump(p)

SpecEdit == InitEdit /\ [][NextEdit]_vars

----------------------------------------------------------------------------
(* Reading the two invocations *)

Took(p, what) == \E i \in 1..Len(history) : history[i] = Step(p, what)
When(p, what) == CHOOSE i \in 1..Len(history) : history[i] = Step(p, what)

\* p took the step `what` before q took the step `that`
Before(p, what, q, that) == Took(p, what) /\ Took(q, that) /\ When(p, what) < When(q, that)

BothWrote ==
  \A p \in Writers : procs[p].pc = "done"
                     /\ procs[p].result = Some(Message("Note updated successfully."))

DifferentTopKeys ==
  /\ \A p \in Writers : Len(procs[p].key) = 1
  /\ procs["w1"].key # procs["w2"].key

\* Both invocations read the file before either opened it for writing
BothReadFirst == \A p \in Writers, q \in Writers : Before(p, "load", q, "open")

\* One invocation returned before the other was called
NoOverlap == \E p \in Writers, q \in Writers : Before(p, "dump", q, "exists")

\* One invocation closed the file before the other opened it for writing
WritesApart == \E p \in Writers, q \in Writers : Before(p, "dump", q, "open")

\* The invocation that wrote last
LastWriter == CHOOSE p \in Writers : \A q \in Writers \ {p} : Before(q, "dump", p, "dump")

FinalValid == ValidJson(notes, fileLen, EditTitle)
FinalDoc == notes[EditTitle]

\* The final document holds the value p set under the key p set it at
HoldsValueOf(p) ==
  /\ FinalValid
  /\ procs[p].key \in DOMAIN FinalDoc
  /\ FinalDoc[procs[p].key] = Str(procs[p].value)

\* C11 as stated: two setValue invocations on one title with different
\* top-level keys. When both read the file before either writes it, the final
\* document holds exactly one of the two values; when they do not overlap, it
\* holds both.
C11_LostUpdate ==
  (BothWrote /\ DifferentTopKeys) =>
    /\ BothReadFirst =>
         \E p \in Writers : HoldsValueOf(p) /\ \A q \in Writers \ {p} : ~HoldsValueOf(q)
    /\ NoOverlap => \A p \in Writers : HoldsValueOf(p)

\* C11, amended: the same two invocations. When both read the file before
\* either opens it for writing and one closes the file before the other opens
\* it, the final document is what the last writer read with its own value set:
\* it holds that value and not the other. (When both open the file before
\* either dumps, the file may be left with bytes that are not JSON.) When the
\* invocations do not overlap, the final document holds both values and is
\* what two edit_note_value calls in a row produce.
C11_LostUpdateWritesApart ==
  (BothWrote /\ DifferentTopKeys) =>
    /\ (BothReadFirst /\ WritesApart) =>
         /\ FinalValid
         /\ FinalDoc = Put(The(procs[LastWriter].loaded), procs[LastWriter].key,
                           Str(procs[LastWriter].value))
         /\ HoldsValueOf(LastWriter)
         /\ \A q \in Writers \ {LastWriter} : ~HoldsValueOf(q)
    /\ NoOverlap =>
         /\ \A p \in Writers : HoldsValueOf(p)
         /\ \E p \in Writers : \E q \in Writers \ {p} :
              /\ Before(p, "dump", q, "exists")
              /\ LET first == edit_note_value(TRUE, [t \in {EditTitle} |-> The(procs[p].loaded)],
                                              EditTitle, procs[p].key, procs[p].value)
                     second == edit_note_value(TRUE, first.notes, EditTitle,
                                               procs[q].key, procs[q].value)
                 IN FinalDoc = second.notes[EditTitle]

\* A lost update: both read, then each wrote in turn; one value is gone
C11_Witness ==
  /\ BothWrote
  /\ DifferentTopKeys
  /\ BothReadFirst
  /\ WritesApart
  /\ HoldsValueOf(LastWriter)
  /\ \E q \in Writers : ~HoldsValueOf(q)

----------------------------------------------------------------------------
(* The calendar directory and the "AI" calendar *)

\* An item of calendarList().list(); the summary key may be missing
Calendar(id, summary) == [id |-> id, summary |-> summary]

RECURSIVE FirstNamedLower(_, _)
\* Mutant of FirstNamed: the names are compared without regard to case
FirstNamedLower(items, i) ==
  IF i > Len(items) THEN None
  ELSE IF items[i].summary \in {Some("AI"), Some("ai")} THEN Some(items[i])
  ELSE FirstNamedLower(items, i + 1)

RECURSIVE FirstNamed(_, _)
\* The loop over calendar_list.get("items", []) from the i-th item on: the
\* first item for which calendar.get("summary") == "AI"
FirstNamed(items, i) ==
  IF i > Len(items) THEN None
  ELSE IF items[i].summary = Some("AI") THEN Some(items[i])
  ELSE FirstNamed(items, i + 1)

\* The id of the calendar, or None
find_ai_calendar(items) ==
  IF FirstNamed(items, 1) = None THEN None ELSE Some(The(FirstNamed(items, 1)).id)

\* The details of the calendar (status already_exists, id), or None
check_ai_calendar_exists(items) ==
  IF FirstNamed(items, 1) = None THEN None
  ELSE Some(Returned("already_exists", None, The(FirstNamed(items, 1)).id, None, None, None))

\* The directory with one more calendar at position at
InsertAt(items, at, calendar) ==
  SubSeq(items, 1, at - 1) \o <<calendar>> \o SubSeq(items, at, Len(items))

\* service.calendars().insert(body={"summary": "AI", ...}).execute(): the
\* remote adds a calendar under a new id; where later listings show it is the
\* remote's choice
create_new_ai_calendar(items, new_id, at) ==
  [calendars |-> InsertAt(items, at, Calendar(new_id, Some("AI"))),
   result |-> Returned("created", None, new_id, None, None, None)]

----------------------------------------------------------------------------
(* The create_ai_calendar tool, one remote call at a time *)

\* Invocations of the tool in one run
MaxInvocations == 3
Invokers == 1..MaxInvocations

\* Ids the remote gives to the calendars it creates, one per invocation
NewCalendarIds == <<"new1", "new2", "new3", "new4", "new5">>

\* Directories with no calendar named "AI": empty, other names, "ai", no name
NoAIDirectories ==
  {<<>>,
   <<Calendar("primary", Some("me@example.com"))>>,
   <<Calendar("primary", Some("me@example.com")), Calendar("lower", Some("ai"))>>,
   <<Calendar("unnamed", None)>>}

\* A tool invocation: the call it is about to make, the listing it got, the
\* remote calls it made, what it returned
ToolRun(pc, listed, made, res) == [pc |-> pc, listed |-> listed, made |-> made, result |-> res]

NotCalled == ToolRun("idle", None, <<>>, None)

RemoteCall(op, ok) == [op |-> op, ok |-> ok]

ToolFrame == UNCHANGED <<calVars, noteVars, steps, fileLen, procs, history>>

\* Lines 114-120 of main.py: check_ai_calendar_exists lists the directory
CreateAiList(p) ==
  /\ tools[p].pc = "idle"
  /\ \E ok \in BOOLEAN :
       tools' = [tools EXCEPT ![p] =
         IF ~ok
         THEN ToolRun("done", None, <<RemoteCall("list", FALSE)>>, Some(Raised("HttpError")))
         ELSE IF check_ai_calendar_exists(calendars) # None
         THEN ToolRun("done", Some(calendars), <<RemoteCall("list", TRUE)>>,
                      check_ai_calendar_exists(calendars))
         ELSE ToolRun("insert", Some(calendars), <<RemoteCall("list", TRUE)>>, None)]
  /\ UNCHANGED calendars
  /\ ToolFrame

\* Line 123 of main.py: create_new_ai_calendar inserts the calendar
CreateAiInsert(p) ==
  /\ tools[p].pc = "insert"
  /\ \E ok \in BOOLEAN, at \in 1..(Len(calendars) + 1) :
       LET o == create_new_ai_calendar(calendars, NewCalendarIds[p], at)
       IN IF ok
          THEN /\ calendars' = o.calendars
               /\ tools' = [tools EXCEPT ![p].pc = "done",
                                         ![p].made = Append(@, RemoteCall("insert", TRUE)),
                                         ![p].result = Some(o.result)]
          ELSE /\ calendars' = calendars
               /\ tools' = [tools EXCEPT ![p].pc = "done",
                                         ![p].made = Append(@, RemoteCall("insert", FALSE)),
                                         ![p].result = Some(Raised("HttpError"))]
  /\ ToolFrame

InitCalendars ==
  /\ CalendarIdle
  /\ NotesIdle
  /\ steps = 0
  /\ fileLen = [t \in {} |-> 0]
  /\ procs = [p \in {} |-> 0]
  /\ history = <<>>
  /\ calendars \in NoAIDirectories
  /\ tools = [p \in Invokers |-> NotCalled]

NextCalendars ==
  \E p \in Invokers :
    \/ CreateAiList(p)
    \/ CreateAiInsert(p)

SpecCalendars == InitCalendars /\ [][NextCalendars]_vars

----------------------------------------------------------------------------
(* Reading the create_ai_calendar invocations *)

NamedAI == {i \in 1..Len(calendars) : calendars[i].summary = Some("AI")}

Inserted(p) == \E i \in 1..Len(tools[p].made) : tools[p].made[i].op = "insert"

\* The invocation p was given a listing that holds a calendar named "AI"
ListedAI(p) == tools[p].listed # None /\ FirstNamed(The(tools[p].listed), 1) # None

\* An invocation that lists an "AI" calendar ends there: already_exists with
\* the id of that calendar, no insert
ListedMeansNoInsert ==
  \A p \in Invokers :
    ListedAI(p) =>
      /\ tools[p].pc = "done"
      /\ tools[p].result = Some(Returned("already_exists", None,
                                         The(FirstNamed(The(tools[p].listed), 1)).id,
                                         None, None, None))
      /\ ~Inserted(p)

\* C12: from a directory with no calendar named "AI", whatever invocations
\* of create_ai_calendar have run and however their remote calls interleave,
\* at most one calendar named "AI" exists; an invocation that lists an "AI"
\* calendar returns already_exists with that calendar's id and inserts nothing.
C12_AtMostOneAI ==
  /\ Cardinality(NamedAI) <= 1
  /\ ListedMeansNoInsert

----------------------------------------------------------------------------
(* The event tools of main.py: find the "AI" calendar, then act on it *)

\* service.calendarList().list().execute() as a remote call
ListCall(ok) == Call("list", "", "", None, ok)

\* {"error": "Calendar named 'AI' not found. ..."}
NotFoundError == Returned("error", None, "", None, None, None)

\* Lines 93-102, 150-159, 189-198: the listing, the scan, the early return.
\* None when the tool goes on to the calendar operation
FindOrStop(items, ev, listOk) ==
  IF ~listOk THEN Some(Outcome(ev, <<ListCall(FALSE)>>, Raised("HttpError")))
  ELSE IF find_ai_calendar(items) = None
  THEN Some(Outcome(ev, <<ListCall(TRUE)>>, NotFoundError))
  ELSE None

\* The calendar operation runs after the listing
AfterList(o) == Outcome(o.events, <<ListCall(TRUE)>> \o o.calls, o.result)

create_event(items, ev, summary, start_time, end_time, description, new_id, listOk, failAt) ==
  IF FindOrStop(items, ev, listOk) # None THEN The(FindOrStop(items, ev, listOk))
  ELSE AfterList(create_event_in_calendar(ev, The(find_ai_calendar(items)), summary,
                                          start_time, end_time, description, new_id, failAt))

update_event(items, ev, event_id, summary, start_time, end_time, description, update_following_instances, listOk, failAt) ==
  IF FindOrStop(items, ev, listOk) # None THEN The(FindOrStop(items, ev, listOk))
  ELSE AfterList(update_event_in_calendar(ev, The(find_ai_calendar(items)), event_id, summary,
                                          start_time, end_time, description,
                                          update_following_instances, failAt))

delete_event(items, ev, event_id, delete_following_instances, listOk, failAt) ==
  IF FindOrStop(items, ev, listOk) # None THEN The(FindOrStop(items, ev, listOk))
  ELSE AfterList(delete_event_from_calendar(ev, The(find_ai_calendar(items)), event_id,
                                            delete_following_instances, failAt))

\* Tool invocations in one run
MaxToolCalls == 1

\* Directories the tools are run on: none named "AI"; only "ai"; "AI" alone,
\* after other calendars, after "ai", twice, after a calendar with no summary
Directories ==
  NoAIDirectories \cup
  {<<Calendar("ai1", Some("AI"))>>,
   <<Calendar("primary", Some("me@example.com")), Calendar("ai1", Some("AI"))>>,
   <<Calendar("lower", Some("ai")), Calendar("ai1", Some("AI")), Calendar("ai2", Some("AI"))>>,
   <<Calendar("ai2", Some("AI")), Calendar("ai1", Some("AI"))>>,
   <<Calendar("unnamed", None), Calendar("ai1", Some("AI")), Calendar("lower", Some("ai"))>>}

ToolCreateEvent ==
  /\ steps < MaxToolCalls
  /\ steps' = steps + 1
  /\ \E new_id \in FreshIds \ DOMAIN events, description \in {None, Some("D1")},
     listOk \in BOOLEAN, failAt \in 0..1 :
    Finish(create_event(calendars, events, "S1", NewTime, NewTime, description, new_id,
                        listOk, failAt),
           [NoCall EXCEPT !.op = "tool_create_event", !.summary = Some("S1"),
                          !.start_time = Some(NewTime), !.end_time = Some(NewTime),
                          !.description = description, !.failAt = failAt])

ToolUpdateEvent ==
  /\ steps < MaxToolCalls
  /\ steps' = steps + 1
  /\ \E event_id \in EventIds, following \in BOOLEAN, listOk \in BOOLEAN,
     failAt \in 0..MaxRemoteCalls, summary \in {None, Some("S1")},
     start_time \in {None, Some(NewTime)} :
    Finish(update_event(calendars, events, event_id, summary, start_time, None, None,
                        following, listOk, failAt),
           [NoCall EXCEPT !.op = "tool_update_event", !.event_id = event_id,
                          !.following = following, !.summary = summary,
                          !.start_time = start_time, !.failAt = failAt])

ToolDeleteEvent ==
  /\ steps < MaxToolCalls
  /\ steps' = steps + 1
  /\ \E event_id \in EventIds, following \in BOOLEAN, listOk \in BOOLEAN,
     failAt \in 0..MaxRemoteCalls :
    Finish(delete_event(calendars, events, event_id, following, listOk, failAt),
           [NoCall EXCEPT !.op = "tool_delete_event", !.event_id = event_id,
                          !.following = following, !.failAt = failAt])

\* The events are those of the calendar the calls address
InitTools ==
  /\ \E start \in {Some(TimePoint(Some(DateTimeText("10", "09", "+09:00")), None)), None} :
       events = Store(start, Some(<<RRule(<<FreqPart>>)>>))
  /\ calls = <<>>
  /\ result = NoResult
  /\ lastCall = NoCall
  /\ steps = 0
  /\ NotesIdle
  /\ calendars \in Directories
  /\ fileLen = [t \in {} |-> 0]
  /\ procs = [p \in {} |-> 0]
  /\ history = <<>>
  /\ tools = [p \in {} |-> 0]

NextTools == ToolCreateEvent \/ ToolUpdateEvent \/ ToolDeleteEvent

SpecTools == InitTools /\ [][NextTools]_vars

----------------------------------------------------------------------------
(* Reading the last tool invocation *)

ToolRan == lastCall.op \in {"tool_create_event", "tool_update_event", "tool_delete_event"}

Listed == calls # <<>> /\ calls[1] = ListCall(TRUE)

\* Positions of the calendars whose summary is exactly "AI"
AIPositions == {i \in 1..Len(calendars) : calendars[i].summary = Some("AI")}

\* The id of the one that comes first in the listing
FirstAIId == calendars[CHOOSE i \in AIPositions : \A j \in AIPositions : i <= j].id

EventCalls == {i \in 1..Len(calls) : calls[i].op # "list"}

\* C13: every event insert, update or delete a tool issues addresses the
\* first calendar of the listing whose summary is exactly "AI" (so do its
\* fetches and the calendar_id it returns); when the listing holds no such
\* calendar, the tool returns the error dict and issues no call on events.
C13_FirstAICalendar ==
  ToolRan =>
    /\ \A i \in EventCalls :
         /\ AIPositions # {}
         /\ calls[i].calendarId = FirstAIId
    /\ result.calendar_id # None =>
         (AIPositions # {} /\ The(result.calendar_id) = FirstAIId)
    /\ (Listed /\ AIPositions = {}) => (result = NotFoundError /\ EventCalls = {})
    /\ (Listed /\ AIPositions # {}) => result # NotFoundError

\* A tool changed an event of the first "AI" calendar, listed after a
\* calendar named "ai" and before another one named "AI"
C13_Witness ==
  /\ ToolRan
  /\ Len(calendars) = 3
  /\ calendars[1].summary = Some("ai")
  /\ Cardinality(AIPositions) = 2
  /\ \E i \in EventCalls : IsMutating(calls[i]) /\ calls[i].ok /\ calls[i].calendarId = "ai1"

\* A tool found only a calendar named "ai": the error dict, no call on events
C13_WitnessNotFound ==
  /\ ToolRan
  /\ \E i \in 1..Len(calendars) : calendars[i].summary = Some("ai")
  /\ AIPositions = {}
  /\ result = NotFoundError

====
